---- MODULE Spec2Model ----
(***************************************************************************)
(* Auction engine of the auction platform: the socket handlers place_bid   *)
(* and set_proxy_bid, the REST proxy-bid endpoint, the proxy bidding        *)
(* algorithm, the dynamic pricing functions and the two periodic tasks,     *)
(* over the tables auctions, bids and proxy_bids.                           *)
(*                                                                         *)
(* One auction is modelled.  Every handler is a process whose steps are    *)
(* the database statements it awaits; a step is the statement together     *)
(* with the synchronous code that follows it up to the next await.         *)
(* Money is in cents, time in ticks of MinutesPerTick minutes.             *)
(***************************************************************************)
EXTENDS Integers, Sequences, FiniteSets, TLC

\* ---------------------------------------------------------------- bounds
MaxTime == 1
MaxStarted == 3

\* ------------------------------------------------------- the modelled data
Seller == "S"
\* Third is a bidder who only sets intents through the REST endpoint
Third == "B3"
Bidders == {"B1", "B2", Third}
Users == Bidders \cup {Seller}
None == "none"
\* the value of a property the object does not have; no string is empty here
Undefined == <<>>

role == [u \in Users |-> IF u = Seller THEN "seller" ELSE "bidder"]

\* Money is kept in cents, as the DECIMAL(10,2) columns hold it.
StartPrice == 10000
StartTime == 0
EndTime == 1
MinutesPerTick == 90

BidAmounts == {10000, 11000}
MaxAmounts == {10500, 14000}

Chans == {"ws", "http"}
Slots == (Users \ {Third}) \X Chans
ThirdSlot == <<Third, "http">>
AllSlots == Slots \cup {ThirdSlot}

\* ------------------------------------------------------ numbers and text
\* node-postgres returns a DECIMAL column as a string ("100.00"), so that +
\* with a number concatenates and <= between two such values compares text.
\* A string is the sequence of its characters, '.' as 0 and the digit d as
\* d + 1, which keeps the order of the character codes.  A JavaScript number
\* is kept in thousandths of a cent.
Dot == 0
PerCent == 1000
PerUnit == 100 * PerCent

RECURSIVE Digits(_)
Digits(n) == IF n < 10 THEN <<n + 1>> ELSE Append(Digits(n \div 10), (n % 10) + 1)

\* String(n) of a whole number
NumberToString(n) == Digits(n)

\* the text of a DECIMAL(10,2) value
DecimalText(cents) ==
    Digits(cents \div 100) \o <<Dot, ((cents % 100) \div 10) + 1, (cents % 10) + 1>>

RECURSIVE IntOf(_)
IntOf(ds) ==
    IF ds = <<>> THEN 0
    ELSE IntOf(SubSeq(ds, 1, Len(ds) - 1)) * 10 + (ds[Len(ds)] - 1)

\* Number(str) of digits around one '.', with five decimals at most
ToNumber(str) ==
    LET d == CHOOSE i \in 1..Len(str) : str[i] = Dot
        frac == SubSeq(str, d + 1, Len(str))
    IN IntOf(SubSeq(str, 1, d - 1)) * PerUnit + IntOf(frac) * 10 ^ (5 - Len(frac))

\* a <= b of two strings
RECURSIVE StrLe(_, _)
StrLe(a, b) ==
    IF a = <<>> THEN TRUE
    ELSE IF b = <<>> THEN FALSE
    ELSE IF Head(a) # Head(b) THEN Head(a) < Head(b)
    ELSE StrLe(Tail(a), Tail(b))

\* the value a DECIMAL(10,2) column stores for a parameter: rounded to the cent
RoundToCents(x) == (x + PerCent \div 2) \div PerCent

\* the id of the auction of the model
AuctionId == 1

\* ------------------------------------------------------- BidPriorityQueue
\* this.heap as a sequence: the element at index i of the array is at i + 1,
\* so the parent of position p is p \div 2 and its children 2p and 2p + 1.
\* A queued bid is the row placeBid returned, with auctionId and timestamp:
\* its amount is the text of the DECIMAL column.

\* a < b of two strings
StrLt(a, b) == a # b /\ StrLe(a, b)

swap(heap, indexOne, indexTwo) ==
    [heap EXCEPT ![indexOne] = heap[indexTwo], ![indexTwo] = heap[indexOne]]

\* the loop of heapifyUp from position index
RECURSIVE heapifyUpFrom(_, _)
heapifyUpFrom(heap, index) ==
    IF index > 1 /\ StrLt(heap[index \div 2].amount, heap[index].amount)
    THEN heapifyUpFrom(swap(heap, index \div 2, index), index \div 2)
    ELSE heap

heapifyUp(heap) == IF heap = <<>> THEN heap ELSE heapifyUpFrom(heap, Len(heap))

\* the loop of heapifyDown from position index
RECURSIVE heapifyDownFrom(_, _)
heapifyDownFrom(heap, index) ==
    IF 2 * index > Len(heap) THEN heap
    ELSE LET left == 2 * index
             right == 2 * index + 1
             largerChildIndex ==
                 IF right <= Len(heap) /\ StrLt(heap[left].amount, heap[right].amount)
                 THEN right ELSE left
         IN IF StrLt(heap[largerChildIndex].amount, heap[index].amount) THEN heap
            ELSE heapifyDownFrom(swap(heap, index, largerChildIndex), largerChildIndex)

heapifyDown(heap) == heapifyDownFrom(heap, 1)

\* peek: the bid at the root; the queue is not empty
peek(heap) == heap[1]

\* poll: the heap after the root is removed
poll(heap) ==
    IF heap = <<>> THEN heap
    ELSE heapifyDown(SubSeq([heap EXCEPT ![1] = heap[Len(heap)]], 1, Len(heap) - 1))

add(heap, bid) == heapifyUp(Append(heap, bid))

\* rebuildHeap: the elements are added one by one to an empty heap
RECURSIVE rebuildHeap(_)
rebuildHeap(elements) ==
    IF elements = <<>> THEN <<>>
    ELSE add(rebuildHeap(SubSeq(elements, 1, Len(elements) - 1)),
             elements[Len(elements)])

KeepsBid(auctionId, bid) == bid.auctionId # auctionId

removeBidsForAuction(heap, auctionId) ==
    rebuildHeap(SelectSeq(heap, LAMBDA bid : KeepsBid(auctionId, bid)))

\* addBidWithTimePriority: a queued bid of the same amount and auction is
\* replaced by one with an earlier timestamp; a timestamp of 0 is falsy and
\* becomes Date.now()
addBidWithTimePriority(heap, bid, dateNow) ==
    LET b == IF bid.timestamp = 0 THEN [bid EXCEPT !.timestamp = dateNow] ELSE bid
        found == {i \in 1..Len(heap) :
                     heap[i].amount = b.amount /\ heap[i].auctionId = b.auctionId}
        existingIndex == CHOOSE i \in found : \A j \in found : i <= j
    IN IF found = {} THEN add(heap, b)
       ELSE IF b.timestamp < heap[existingIndex].timestamp
       THEN heapifyDown(heapifyUp([heap EXCEPT ![existingIndex] = b]))
       ELSE heap

\* --------------------------------------------------------- DynamicPricing
\* Factors are kept times 10, the increment times 10^4 until it is rounded.
defaultIncrement == 5
maxIncrement == 500
minIncrement == 1

Max2(a, b) == IF a >= b THEN a ELSE b
Min2(a, b) == IF a <= b THEN a ELSE b

\* currentPrice <= startingPrice: of two strings, false when one is undefined
JsLe(a, b) == a # Undefined /\ b # Undefined /\ StrLe(a, b)
\* currentPrice < n for a number n: false when currentPrice is undefined (NaN)
JsLt(a, n) == a # Undefined /\ ToNumber(a) < n * PerUnit

\* priceJumpRatio = currentPrice / startingPrice compared with r10 / 10:
\* currentPrice * 10 <= r10 * startingPrice, with the right side divided by
\* 10 first so that the products stay within 32 bits
RatioLe(startingPrice, currentPrice, r10) ==
    /\ startingPrice # Undefined
    /\ currentPrice # Undefined
    /\ ToNumber(currentPrice) <=
           r10 * (ToNumber(startingPrice) \div 10)
               + (r10 * (ToNumber(startingPrice) % 10)) \div 10

calculatePriceJumpFactor(startingPrice, currentPrice) ==
    IF JsLe(currentPrice, startingPrice) THEN 10
    ELSE IF RatioLe(startingPrice, currentPrice, 15) THEN 10
    ELSE IF RatioLe(startingPrice, currentPrice, 20) THEN 15
    ELSE IF RatioLe(startingPrice, currentPrice, 30) THEN 20
    ELSE IF RatioLe(startingPrice, currentPrice, 50) THEN 30
    ELSE 40

\* bidHistory: the rows most recent first; dateNow: Date.now() in ticks.
\* created_at > Date.now() - 10 minutes, and recentBids.length / 10 compared
\* with 0.5, 1, 2, 5 bids per minute.
RecentBids(bidHistory, dateNow) ==
    {i \in 1..Len(bidHistory) :
        bidHistory[i].created_at * MinutesPerTick > dateNow * MinutesPerTick - 10}

calculateVelocityFactor(bidHistory, dateNow) ==
    IF Len(bidHistory) < 2 THEN 10
    ELSE LET n == Cardinality(RecentBids(bidHistory, dateNow)) IN
         IF n < 5 THEN 10
         ELSE IF n < 10 THEN 12
         ELSE IF n < 20 THEN 15
         ELSE IF n < 50 THEN 20
         ELSE 30

calculateTimePressureFactor(timeRemaining) ==
    IF timeRemaining > 60 THEN 10
    ELSE IF timeRemaining > 30 THEN 11
    ELSE IF timeRemaining > 15 THEN 13
    ELSE IF timeRemaining > 5 THEN 15
    ELSE IF timeRemaining > 1 THEN 20
    ELSE 30

\* bidHistory.slice(-20): the last 20 elements of the array
SliceLast20(bidHistory) ==
    IF Len(bidHistory) <= 20 THEN bidHistory
    ELSE SubSeq(bidHistory, Len(bidHistory) - 19, Len(bidHistory))

calculateCompetitionFactor(bidHistory) ==
    IF Len(bidHistory) = 0 THEN 10
    ELSE LET recentBids == SliceLast20(bidHistory)
             competitorCount ==
                 Cardinality({recentBids[i].bidder_id : i \in 1..Len(recentBids)})
         IN IF competitorCount <= 2 THEN 10
            ELSE IF competitorCount <= 4 THEN 12
            ELSE IF competitorCount <= 6 THEN 14
            ELSE IF competitorCount <= 10 THEN 16
            ELSE 20

\* Math.round(x / step) * step for x given times 10^4
RoundTo(x4, step) == ((x4 + step * 5000) \div (step * 10000)) * step

roundToMeaningfulIncrement(increment4, currentPrice) ==
    IF JsLt(currentPrice, 100) THEN RoundTo(increment4, 1)
    ELSE IF JsLt(currentPrice, 500) THEN RoundTo(increment4, 5)
    ELSE IF JsLt(currentPrice, 1000) THEN RoundTo(increment4, 10)
    ELSE IF JsLt(currentPrice, 5000) THEN RoundTo(increment4, 25)
    ELSE RoundTo(increment4, 50)

\* auctionData: [startingPrice, currentPrice, timeRemaining, bidHistory], the
\* prices strings or undefined
calculateBidIncrement(auctionData, dateNow) ==
    LET priceJumpFactor ==
            calculatePriceJumpFactor(auctionData.startingPrice, auctionData.currentPrice)
        velocityFactor == calculateVelocityFactor(auctionData.bidHistory, dateNow)
        timePressureFactor == calculateTimePressureFactor(auctionData.timeRemaining)
        competitionFactor == calculateCompetitionFactor(auctionData.bidHistory)
        dynamicIncrement4 ==
            defaultIncrement * priceJumpFactor * velocityFactor
                * timePressureFactor * competitionFactor
        clamped4 == Max2(minIncrement * 10000, Min2(maxIncrement * 10000, dynamicIncrement4))
    IN roundToMeaningfulIncrement(clamped4, auctionData.currentPrice)

\* Math.max(minIncrement, normalIncrement * 0.7); the increments the handlers
\* compute are multiples of 50 below 350, so the product is a whole number
calculateProxyIncrement(auctionData, dateNow) ==
    Max2(minIncrement, (calculateBidIncrement(auctionData, dateNow) * 7) \div 10)


\* ------------------------------------------------------------------ state
VARIABLES
    now,          \* the wall clock, NOW() / Date.now(), in ticks
    auction,      \* the auctions row
    bids,         \* the bids rows of the auction, in insertion (id) order
    proxy_bids,   \* the proxy_bids rows of the auction, in insertion (id) order
    lastBidders,  \* this.lastBidders.get(auctionId), None when absent
    handlers,     \* per connection: the request in flight and its locals
    statusUpdater,\* the 30 s task: [pc, winner]
    proxyProcessor,\* the 60 s task: [pc, winner]
    started,     \* requests accepted by their first check, timer runs and
                 \* failed statements, so far
    new_bid,     \* the bid ids of the new_bid events emitted to the room, in order
    bid_error,   \* the ids of the inserted bids whose originator was sent
                 \* bid_error or proxy_bid_error afterwards
    bidQueue,    \* this.bidQueue.heap: the queued bids, as the array holds them
    rejected,    \* the rejections sent before any write: <<user, message>>
    auction_ended, \* the winners (None for no winner) of the auction_ended
                 \* events emitted to the room, in order
    auction_won, \* the sockets that were sent auction_won
    connectedUsers, \* this.connectedUsers: user id -> socket, None when absent
    sockets,     \* the sockets that are connected
    attempts,    \* createAuthRateLimit: the Map, as the sequence of the entries
                 \* of the one source address (none or one)
    requests,    \* the requests the auth routes are handling: the Date.now()
                 \* each arrived at, in order of arrival
    responses,   \* the answers to the requests of the address, in order:
                 \* [status, now], now the Date.now() the request arrived at
    dateNow,     \* Date.now() of the auth middleware, in minutes
    auctionData, \* the telemetry handed to calculateBidIncrement
    bidIncrement, \* what calculateBidIncrement returned for it: <<>> before the
                 \* call, the one returned value after it
    auctionRooms, \* this.auctionRooms.get(auctionId): the user ids tracked
    rooms,       \* the sockets in the socket.io room of the auction
    subscriber,  \* handleJoinAuction of the watching socket: [pc, joinedAt,
                 \* snapshot, snapAt]; joinedAt and snapAt count the new_bid
                 \* events emitted before socket.join and before bid_history
    data         \* per connection: the bidderId field of the payload of its
                 \* latest command, None when the payload had no such field

notices == <<rejected, auction_ended, auction_won>>
connections == <<connectedUsers, sockets>>
authVars == <<attempts, requests, responses, dateNow>>
pricingVars == <<auctionData, bidIncrement>>
roomVars == <<auctionRooms, rooms, subscriber>>
otherVars == <<authVars, pricingVars, roomVars, data>>

vars == <<now, auction, bids, proxy_bids, lastBidders, handlers,
          statusUpdater, proxyProcessor, started, new_bid, bid_error,
          bidQueue, notices, connections, otherVars>>

IdleHandler ==
    [pc |-> "idle", op |-> None, amount |-> 0, price |-> 0,
     bidId |-> 0, top |-> 0, topMax |-> 0, nrows |-> 0, secondMax |-> 0,
     abAmount |-> 0, currentPrice |-> 0, proxyBidOk |-> TRUE,
     bid |-> 0, automaticBid |-> 0]

IdleTask == [pc |-> "idle", winner |-> None]

User(s) == s[1]
Chan(s) == s[2]

InFlight == {s \in AllSlots : handlers[s].pc # "idle"}
TasksRunning == {t \in {statusUpdater, proxyProcessor} : t.pc # "idle"}

\* Concurrency is explored pairwise: a request or a periodic task starts
\* while at most one other request or task is in flight.
AtMostOneOther ==
    \/ InFlight = {} /\ Cardinality(TasksRunning) <= 1
    \/ Cardinality(InFlight) = 1 /\ TasksRunning = {}

\* A user can hold two sockets; the socket commands of the model arrive on
\* the first.
SocketIds == Users \X {1, 2}
SocketOf(s) == <<User(s), 1>>

\* a connection has one request in flight
CanStart(s) ==
    /\ handlers[s].pc = "idle"
    /\ AtMostOneOther
    /\ started < MaxStarted

\* no request has reached the auth routes
InitAuth ==
    /\ attempts = <<>>
    /\ requests = <<>>
    /\ responses = <<>>
    /\ dateNow = 0

\* no socket has joined the auction
NotJoined == [pc |-> "out", joinedAt |-> 0, snapshot |-> {}, snapAt |-> 0]

InitRooms ==
    /\ auctionRooms = {}
    /\ rooms = {}
    /\ subscriber = NotJoined

\* calculateBidIncrement has not been called from outside the handlers
InitPricing ==
    /\ auctionData = None
    /\ bidIncrement = <<>>

\* POST /api/auctions: the row of a new auction; its status is live when
\* start_time has come, upcoming otherwise
NewAuction(start_time, end_time) ==
    [seller_id |-> Seller, starting_price |-> StartPrice,
     current_price |-> StartPrice, start_time |-> start_time,
     end_time |-> end_time,
     status |-> IF start_time <= 0 THEN "live" ELSE "upcoming",
     winner_id |-> None, total_bids |-> 0]

\* the server has started, each user has connected a first socket and the
\* auction was created at time 0
InitServer(a) ==
    /\ now = 0
    /\ auction = a
    /\ bids = <<>>
    /\ proxy_bids = <<>>
    /\ lastBidders = None
    /\ handlers = [s \in AllSlots |-> IdleHandler]
    /\ statusUpdater = IdleTask
    /\ proxyProcessor = IdleTask
    /\ started = 0
    /\ new_bid = <<>>
    /\ bid_error = {}
    /\ bidQueue = <<>>
    /\ rejected = {}
    /\ auction_ended = <<>>
    /\ auction_won = {}
    /\ connectedUsers = [u \in Users |-> <<u, 1>>]
    /\ sockets = {<<u, 1>> : u \in Users}
    /\ InitAuth
    /\ InitRooms
    /\ data = [s \in AllSlots |-> None]

InitWith(a) ==
    /\ InitServer(a)
    /\ InitPricing

Init == InitWith(NewAuction(StartTime, EndTime))

\* --------------------------------------------------------------- queries
Reverse(seq) == [i \in 1..Len(seq) |-> seq[Len(seq) + 1 - i]]

\* SELECT * FROM bids WHERE auction_id = $1 ORDER BY created_at DESC LIMIT 50
BidHistoryQuery ==
    LET r == Reverse(bids) IN IF Len(r) <= 50 THEN r ELSE SubSeq(r, 1, 50)

\* EXTRACT(EPOCH FROM (a.end_time - NOW())) / 60, then Math.max(0, .)
TimeRemainingMinutes == Max2(0, (auction.end_time - now) * MinutesPerTick)

\* getAuctionData: the row's columns are snake_case, so the camelCase fields
\* calculateBidIncrement destructures (startingPrice, currentPrice,
\* totalBids) are undefined; timeRemaining and bidHistory are set.  Its two
\* SELECTs are read in one step.
getAuctionData ==
    [startingPrice |-> Undefined, currentPrice |-> Undefined,
     timeRemaining |-> TimeRemainingMinutes, bidHistory |-> BidHistoryQuery]

\* the ids of the active intents with max_amount > amount, not owned by
\* exclude, ORDER BY max_amount DESC, created_at ASC
Qualifying(amount, exclude) ==
    {i \in 1..Len(proxy_bids) :
        /\ proxy_bids[i].is_active
        /\ proxy_bids[i].bidder_id # exclude
        /\ proxy_bids[i].max_amount > amount}

Before(i, j) ==
    \/ proxy_bids[i].max_amount > proxy_bids[j].max_amount
    \/ proxy_bids[i].max_amount = proxy_bids[j].max_amount /\ i < j

\* the row at position k (1-based) of the ordered result
RowAt(Q, k) == CHOOSE i \in Q : Cardinality({j \in Q : Before(j, i)}) = k - 1

Finish(s) == handlers' = [handlers EXCEPT ![s] = IdleHandler]
Goto(s, h) == handlers' = [handlers EXCEPT ![s] = h]

\* the bids a handler has inserted so far
Inserted(h) == {h.bid, h.bidId, h.automaticBid} \ {0}

\* the end of a handler that has bid: the new_bid events of ids, then await
\* getAuctionStatus; when that read throws, the catch block sends the
\* originator bid_error (proxy_bid_error)
Conclude(s, ids) ==
    /\ new_bid' = new_bid \o ids
    /\ Finish(s)
    /\ \/ UNCHANGED <<bid_error, started>>
       \/ /\ started < MaxStarted
          /\ started' = started + 1
          /\ bid_error' = bid_error \cup {ids[i] : i \in 1..Len(ids)}


\* --------------------------------------------- the four statements of a bid
\* INSERT INTO bids (auction_id, bidder_id, amount, bid_type) RETURNING *
InsertBid(bidderId, amount, bidType) ==
    bids' = Append(bids, [bidder_id |-> bidderId, amount |-> amount,
                          bid_type |-> bidType, created_at |-> now,
                          is_winning |-> FALSE])

\* UPDATE auctions SET current_price = $1, total_bids = total_bids + 1
UpdateAuctionPrice(amount) ==
    auction' = [auction EXCEPT !.current_price = amount,
                               !.total_bids = @ + 1]

\* UPDATE bids SET is_winning = false WHERE auction_id = $1 AND id != $2
UnsetWinning(bidId) ==
    bids' = [i \in 1..Len(bids) |->
                IF i # bidId THEN [bids[i] EXCEPT !.is_winning = FALSE] ELSE bids[i]]

\* UPDATE bids SET is_winning = true WHERE id = $1
SetWinning(bidId) ==
    bids' = [bids EXCEPT ![bidId].is_winning = TRUE]

\* auction.seller_id === bidderId, the check of both socket handlers
IsSeller_Never(u) == FALSE
IsSeller(u) == auction.seller_id = u

\* ------------------------------------------------------- handlePlaceBid
\* the message of the check of handlePlaceBid that rejects the request of
\* connection s, None when the checks before getAuctionData pass
PlaceBidRejection(s) ==
    IF auction.status # "live" THEN "not live"
    ELSE IF IsSeller(User(s)) THEN "seller"
    ELSE IF lastBidders = User(s) THEN "consecutive"
    ELSE None

\* return socket.emit('bid_error', { message }) with the last-bidder entry
\* already set to the caller
Reject_AfterSet(s, message) ==
    /\ rejected' = rejected \cup {<<User(s), message>>}
    /\ lastBidders' = User(s)
    /\ UNCHANGED <<auction, bids, bidQueue, new_bid>>

\* return socket.emit('bid_error', { message }): the originating socket is
\* told, nothing is written
Reject(s, message) ==
    /\ rejected' = rejected \cup {<<User(s), message>>}
    /\ UNCHANGED <<auction, bids, lastBidders, bidQueue, new_bid>>

\* getAuctionById and the checks on its result
placeBidChecks(s, amount) ==
    /\ Chan(s) = "ws"
    /\ SocketOf(s) \in sockets
    /\ CanStart(s)
    /\ started' = started + 1
    /\ IF PlaceBidRejection(s) # None
       THEN /\ Reject(s, PlaceBidRejection(s))
            /\ UNCHANGED handlers
       ELSE /\ Goto(s, [IdleHandler EXCEPT !.pc = "pb_data", !.op = "place",
                                        !.amount = amount,
                                        !.price = auction.current_price])
            /\ UNCHANGED <<rejected, auction, bids, lastBidders, bidQueue, new_bid>>
    /\ UNCHANGED <<now, auction_ended, auction_won, connections, authVars,
                   pricingVars, roomVars, bid_error, proxy_bids, statusUpdater,
                   proxyProcessor>>

\* place_bid with the payload { auctionId, amount }
handlePlaceBid(s, amount) ==
    /\ placeBidChecks(s, amount)
    /\ UNCHANGED data

\* const bidderId = socket.user.id, for a payload that names another bidder
bidderId_FromPayload(s) == IF data[s] # None THEN data[s] ELSE User(s)

\* const bidderId = socket.user.id: the user authenticateSocket attached to
\* the connection
bidderId(s) == User(s)

\* getAuctionData, then the minimum bid check: auction.current_price is a
\* string, minimumBid the concatenation
PlaceBidData(s) ==
    LET h == handlers[s]
        requiredIncrement == calculateBidIncrement(getAuctionData, now)
        minimumBid == DecimalText(h.price) \o NumberToString(requiredIncrement)
    IN /\ h.pc = "pb_data"
       /\ IF h.amount * PerCent < ToNumber(minimumBid)
          THEN /\ Reject(s, "minimum")
               /\ Finish(s)
          ELSE /\ Goto(s, [h EXCEPT !.pc = "pb_ins", !.price = 0])
               /\ UNCHANGED <<rejected, auction, bids, lastBidders, bidQueue, new_bid>>
       /\ UNCHANGED <<now, auction_ended, auction_won, connections, otherVars,
                      bid_error, proxy_bids, statusUpdater, proxyProcessor, started>>

\* placeBid: the INSERT
PlaceBidInsert(s) ==
    /\ handlers[s].pc = "pb_ins"
    /\ InsertBid(bidderId(s), handlers[s].amount, "manual")
    /\ Goto(s, [handlers[s] EXCEPT !.pc = "pb_upd", !.bidId = Len(bids) + 1])
    /\ UNCHANGED <<now, bidQueue, notices, connections, otherVars, new_bid, bid_error, auction, proxy_bids, lastBidders,
                   statusUpdater, proxyProcessor, started>>

\* placeBid: the UPDATE of the auction
PlaceBidUpdate(s) ==
    /\ handlers[s].pc = "pb_upd"
    /\ UpdateAuctionPrice(handlers[s].amount)
    /\ Goto(s, [handlers[s] EXCEPT !.pc = "pb_unset"])
    /\ UNCHANGED <<now, bidQueue, notices, connections, otherVars, new_bid, bid_error, bids, proxy_bids, lastBidders,
                   statusUpdater, proxyProcessor, started>>

\* placeBid: is_winning = false on the other bids
PlaceBidUnset(s) ==
    /\ handlers[s].pc = "pb_unset"
    /\ UnsetWinning(handlers[s].bidId)
    /\ Goto(s, [handlers[s] EXCEPT !.pc = "pb_set"])
    /\ UNCHANGED <<now, bidQueue, notices, connections, otherVars, new_bid, bid_error, auction, proxy_bids, lastBidders,
                   statusUpdater, proxyProcessor, started>>

\* placeBid: is_winning = true on the bid; back in handlePlaceBid,
\* bidQueue.add, lastBidders.set(auctionId, bidderId) and the call of
\* processAutomaticBidding
PlaceBidSet(s) ==
    /\ handlers[s].pc = "pb_set"
    /\ SetWinning(handlers[s].bidId)
    /\ bidQueue' = add(bidQueue, [id |-> handlers[s].bidId,
                                  amount |-> DecimalText(bids[handlers[s].bidId].amount),
                                  auctionId |-> AuctionId, timestamp |-> now])
    /\ lastBidders' = User(s)
    /\ Goto(s, [handlers[s] EXCEPT !.pc = "pab_sel", !.bidId = 0,
                                   !.bid = handlers[s].bidId])
    /\ UNCHANGED <<now, notices, connections, otherVars, new_bid, bid_error, auction, proxy_bids, statusUpdater, proxyProcessor, started>>

\* --------------------------------------------- processAutomaticBidding
\* the query of the intents that can counter; none: return null
AutoBidSelect(s) ==
    LET h == handlers[s]
        Q == Qualifying(h.amount, User(s))
    IN /\ h.pc = "pab_sel"
       /\ IF Q = {}
          THEN Conclude(s, <<h.bid>>)
          ELSE /\ Goto(s, [h EXCEPT
                       !.pc = "pab_data",
                       !.top = RowAt(Q, 1),
                       !.topMax = proxy_bids[RowAt(Q, 1)].max_amount,
                       !.nrows = Cardinality(Q),
                       !.secondMax = IF Cardinality(Q) >= 2
                                     THEN proxy_bids[RowAt(Q, 2)].max_amount ELSE 0])
               /\ UNCHANGED <<new_bid, bid_error, started>>
       /\ UNCHANGED <<now, bidQueue, notices, connections, otherVars, auction, bids, proxy_bids, lastBidders,
                      statusUpdater, proxyProcessor>>

\* counterBidAmount = newBidAmount + increment, placed when the intent read
\* by the query can afford it
AutoBidData(s) ==
    LET h == handlers[s]
        increment == calculateProxyIncrement(getAuctionData, now)
        counterBidAmount == h.amount + increment * 100
    IN /\ h.pc = "pab_data"
       /\ IF counterBidAmount <= h.topMax
          THEN /\ Goto(s, [h EXCEPT !.pc = "ab_ins", !.abAmount = counterBidAmount,
                                    !.amount = 0, !.topMax = 0,
                                    !.nrows = 0, !.secondMax = 0])
               /\ UNCHANGED <<new_bid, bid_error, started>>
          ELSE Conclude(s, <<h.bid>>)
       /\ UNCHANGED <<now, bidQueue, notices, connections, otherVars, auction, bids, proxy_bids, lastBidders,
                      statusUpdater, proxyProcessor>>

\* ---------------------------------------------------- placeAutomaticBid
AutomaticBidInsert(s) ==
    LET h == handlers[s] IN
    /\ h.pc = "ab_ins"
    /\ InsertBid(proxy_bids[h.top].bidder_id, h.abAmount,
                 IF h.op = "place" THEN "proxy" ELSE "automatic")
    /\ Goto(s, [h EXCEPT !.pc = "ab_upd", !.bidId = Len(bids) + 1])
    /\ UNCHANGED <<now, bidQueue, notices, connections, otherVars, new_bid, bid_error, auction, proxy_bids, lastBidders,
                   statusUpdater, proxyProcessor, started>>

AutomaticBidUpdate(s) ==
    /\ handlers[s].pc = "ab_upd"
    /\ UpdateAuctionPrice(handlers[s].abAmount)
    /\ Goto(s, [handlers[s] EXCEPT !.pc = "ab_unset"])
    /\ UNCHANGED <<now, bidQueue, notices, connections, otherVars, new_bid, bid_error, bids, proxy_bids, lastBidders,
                   statusUpdater, proxyProcessor, started>>

AutomaticBidUnset(s) ==
    /\ handlers[s].pc = "ab_unset"
    /\ UnsetWinning(handlers[s].bidId)
    /\ Goto(s, [handlers[s] EXCEPT !.pc = "ab_set"])
    /\ UNCHANGED <<now, bidQueue, notices, connections, otherVars, new_bid, bid_error, auction, proxy_bids, lastBidders,
                   statusUpdater, proxyProcessor, started>>

AutomaticBidSet(s) ==
    /\ handlers[s].pc = "ab_set"
    /\ SetWinning(handlers[s].bidId)
    /\ Goto(s, [handlers[s] EXCEPT !.pc = "ab_cur", !.bidId = 0,
                                   !.automaticBid = handlers[s].bidId])
    /\ UNCHANGED <<now, bidQueue, notices, connections, otherVars, new_bid, bid_error, auction, proxy_bids, lastBidders,
                   statusUpdater, proxyProcessor, started>>

\* updateProxyBidCurrentAmount; then, back in the handler: handlePlaceBid
\* emits new_bid for the manual bid and for the proxy bid and sets lastBidders
\* to the proxy bidder; handleSetProxyBid emits proxy_bid_set, new_bid for the
\* automatic bid and sets lastBidders to the connection's user, unless
\* proxyBid is undefined: then proxyBid.id throws and the catch block sends
\* proxy_bid_error.
UpdateProxyBidCurrentAmount(s) ==
    LET h == handlers[s] IN
    /\ h.pc = "ab_cur"
    /\ proxy_bids' = [proxy_bids EXCEPT ![h.top].current_amount = h.abAmount]
    /\ IF h.op = "place"
       THEN /\ lastBidders' = proxy_bids[h.top].bidder_id
            /\ Conclude(s, <<h.bid, h.automaticBid>>)
       ELSE IF h.proxyBidOk
       THEN /\ lastBidders' = User(s)
            /\ Conclude(s, <<h.automaticBid>>)
       ELSE /\ bid_error' = bid_error \cup {h.automaticBid}
            /\ Finish(s)
            /\ UNCHANGED <<lastBidders, new_bid, started>>
    /\ UNCHANGED <<now, bidQueue, notices, connections, otherVars, auction, bids, statusUpdater, proxyProcessor>>

\* a statement a handler awaits is rejected by the database: the error
\* reaches the handler's catch block, which sends bid_error
\* (proxy_bid_error, the response 500)
QueryFails(s) ==
    /\ handlers[s].pc # "idle"
    /\ started < MaxStarted
    /\ started' = started + 1
    /\ bid_error' = bid_error \cup Inserted(handlers[s])
    /\ Finish(s)
    /\ UNCHANGED <<now, bidQueue, notices, connections, otherVars, auction, bids, proxy_bids, lastBidders,
                   statusUpdater, proxyProcessor, new_bid>>

\* ----------------------------------------------------- handleSetProxyBid
ActiveIntentsOf(u) ==
    {i \in 1..Len(proxy_bids) : proxy_bids[i].is_active /\ proxy_bids[i].bidder_id = u}

\* getAuctionById and the checks on its result
setProxyBidChecks(s, maxAmount) ==
    /\ Chan(s) = "ws"
    /\ SocketOf(s) \in sockets
    /\ CanStart(s)
    /\ IF \/ auction.status # "live"
          \/ IsSeller(User(s))
          \/ maxAmount <= auction.current_price
       THEN UNCHANGED <<handlers, started>>
       ELSE /\ started' = started + 1
            /\ Goto(s, [IdleHandler EXCEPT !.pc = "cp_sel", !.op = "setproxy",
                                        !.amount = maxAmount,
                                        !.price = auction.current_price])
    /\ UNCHANGED <<now, bidQueue, notices, connections, authVars, pricingVars,
                   roomVars, new_bid, bid_error, auction, bids, proxy_bids,
                   lastBidders, statusUpdater, proxyProcessor>>

\* set_proxy_bid with the payload { auctionId, maxAmount }
handleSetProxyBid(s, maxAmount) ==
    /\ setProxyBidChecks(s, maxAmount)
    /\ UNCHANGED data

\* POST /api/bids/proxy: verifyToken, requireBidder, the Joi schema, then
\* createProxyBid with no check of the auction
postProxy(s, maxAmount) ==
    /\ Chan(s) = "http"
    /\ CanStart(s)
    /\ IF role[User(s)] # "bidder" \/ maxAmount <= 0
       THEN UNCHANGED <<handlers, started>>
       ELSE /\ started' = started + 1
            /\ Goto(s, [IdleHandler EXCEPT !.pc = "cp_sel", !.op = "rest",
                                        !.amount = maxAmount])
    /\ UNCHANGED <<now, bidQueue, notices, connections, otherVars, new_bid, bid_error, auction, bids, proxy_bids, lastBidders,
                   statusUpdater, proxyProcessor>>

\* DELETE /api/bids/proxy/:auctionId: deactivateProxyBid
deleteProxy(s) ==
    /\ Chan(s) = "http"
    /\ CanStart(s)
    /\ IF role[User(s)] # "bidder"
       THEN UNCHANGED <<proxy_bids, started>>
       ELSE /\ started' = started + 1
            /\ proxy_bids' =
              [i \in 1..Len(proxy_bids) |->
                 IF proxy_bids[i].bidder_id = User(s)
                 THEN [proxy_bids[i] EXCEPT !.is_active = FALSE]
                 ELSE proxy_bids[i]]
    /\ UNCHANGED <<now, bidQueue, notices, connections, otherVars, new_bid, bid_error, auction, bids, lastBidders, handlers,
                   statusUpdater, proxyProcessor>>

\* --------------------------------------------------------- createProxyBid
AfterCreate(s, h) ==
    IF h.op = "rest"
    THEN Finish(s)
    ELSE Goto(s, [h EXCEPT !.pc = "gr_sel", !.currentPrice = 0])

\* SELECT the user's active intent
CreateProxySelect(s) ==
    /\ handlers[s].pc = "cp_sel"
    /\ Goto(s, [handlers[s] EXCEPT
                  !.pc = IF ActiveIntentsOf(User(s)) # {} THEN "cp_update"
                                                          ELSE "cp_price"])
    /\ UNCHANGED <<now, bidQueue, notices, connections, otherVars, new_bid, bid_error, auction, bids, proxy_bids, lastBidders,
                   statusUpdater, proxyProcessor, started>>

\* UPDATE proxy_bids SET max_amount WHERE ... is_active = true RETURNING *;
\* result.rows[0] is undefined when no row is active any more
CreateProxyUpdate(s) ==
    LET h == handlers[s] IN
    /\ h.pc = "cp_update"
    /\ proxy_bids' =
          [i \in 1..Len(proxy_bids) |->
             IF i \in ActiveIntentsOf(User(s))
             THEN [proxy_bids[i] EXCEPT !.max_amount = h.amount]
             ELSE proxy_bids[i]]
    /\ AfterCreate(s, [h EXCEPT !.proxyBidOk = (ActiveIntentsOf(User(s)) # {})])
    /\ UNCHANGED <<now, bidQueue, notices, connections, otherVars, new_bid, bid_error, auction, bids, lastBidders, statusUpdater, proxyProcessor, started>>

\* SELECT current_price FROM auctions, for the new intent's current_amount
CreateProxyPrice(s) ==
    /\ handlers[s].pc = "cp_price"
    /\ Goto(s, [handlers[s] EXCEPT !.pc = "cp_insert",
                                   !.currentPrice = auction.current_price])
    /\ UNCHANGED <<now, bidQueue, notices, connections, otherVars, new_bid, bid_error, auction, bids, proxy_bids, lastBidders,
                   statusUpdater, proxyProcessor, started>>

\* INSERT INTO proxy_bids
CreateProxyInsert(s) ==
    LET h == handlers[s] IN
    /\ h.pc = "cp_insert"
    /\ proxy_bids' = Append(proxy_bids,
                            [bidder_id |-> bidderId(s), max_amount |-> h.amount,
                             current_amount |-> h.currentPrice,
                             is_active |-> TRUE])
    /\ AfterCreate(s, h)
    /\ UNCHANGED <<now, bidQueue, notices, connections, otherVars, new_bid, bid_error, auction, bids, lastBidders, statusUpdater, proxyProcessor, started>>

\* ------------------------------------------------ processGreedyAutoBidding
\* the query of the active intents above currentHighestBid, which is the
\* price the handler read when it started
GreedySelect(s) ==
    LET h == handlers[s]
        Q == Qualifying(h.price, None)
    IN /\ h.pc = "gr_sel"
       /\ IF Q = {}
          THEN Finish(s)
          ELSE Goto(s, [h EXCEPT
                  !.pc = "gr_data",
                  !.top = RowAt(Q, 1),
                  !.topMax = proxy_bids[RowAt(Q, 1)].max_amount,
                  !.nrows = Cardinality(Q),
                  !.secondMax = IF Cardinality(Q) >= 2
                                THEN proxy_bids[RowAt(Q, 2)].max_amount ELSE 0])
       /\ UNCHANGED <<now, bidQueue, notices, connections, otherVars, new_bid, bid_error, auction, bids, proxy_bids, lastBidders,
                      statusUpdater, proxyProcessor, started>>

\* currentHighestBid + increment, the concatenation of a string and a number
AboveHighest(h, increment) == DecimalText(h.price) \o NumberToString(increment)

\* the greedy amount for the rows read by GreedySelect: Math.min and Math.max
\* make numbers of their arguments
optimalBidAmount(h, increment) ==
    Max2(Min2(ToNumber(DecimalText(h.secondMax) \o NumberToString(increment)),
              h.topMax * PerCent),
         ToNumber(AboveHighest(h, increment)))

\* optimalBidAmount <= highestProxyBid.max_amount: of two strings with one
\* row, of a number and a string with several
WithinMax(h, increment) ==
    IF h.nrows = 1
    THEN StrLe(AboveHighest(h, increment), DecimalText(h.topMax))
    ELSE optimalBidAmount(h, increment) <= h.topMax * PerCent

\* the amount the statements of placeAutomaticBid store
StoredAmount(h, increment) ==
    RoundToCents(IF h.nrows = 1 THEN ToNumber(AboveHighest(h, increment))
                 ELSE optimalBidAmount(h, increment))

GreedyData(s) ==
    LET h == handlers[s]
        increment == calculateProxyIncrement(getAuctionData, now)
    IN /\ h.pc = "gr_data"
       /\ IF WithinMax(h, increment)
          THEN Goto(s, [h EXCEPT !.pc = "ab_ins",
                                 !.abAmount = StoredAmount(h, increment),
                                 !.price = 0, !.amount = 0,
                                 !.nrows = 0, !.secondMax = 0, !.topMax = 0])
          ELSE Finish(s)
       /\ UNCHANGED <<now, bidQueue, notices, connections, otherVars, new_bid, bid_error, auction, bids, proxy_bids, lastBidders,
                      statusUpdater, proxyProcessor, started>>

\* ------------------------------------------------- updateAuctionStatuses
\* SELECT ... WHERE is_winning = true ORDER BY created_at DESC LIMIT 1
WinningIds == {i \in 1..Len(bids) : bids[i].is_winning}
WinnerQuery ==
    IF WinningIds = {} THEN None
    ELSE bids[CHOOSE i \in WinningIds : \A j \in WinningIds : j <= i].bidder_id

\* the 30 s timer fires: UPDATE ... SET status = 'live' WHERE status =
\* 'upcoming' AND start_time <= NOW()
upcomingToLive ==
    /\ statusUpdater.pc = "idle"
    /\ auction' = IF auction.status = "upcoming" /\ auction.start_time <= now
                  THEN [auction EXCEPT !.status = "live"] ELSE auction
    /\ statusUpdater' = [statusUpdater EXCEPT !.pc = "toClosed"]
    /\ UNCHANGED <<now, bidQueue, notices, connections, otherVars, new_bid, bid_error, bids, proxy_bids, lastBidders, handlers, proxyProcessor>>

StatusUpdaterToLive ==
    /\ AtMostOneOther
    /\ started < MaxStarted
    /\ started' = started + 1
    /\ upcomingToLive

\* WHERE status = 'live' AND end_time < NOW()
liveToClosed_Strict == auction.status = "live" /\ auction.end_time < now

\* WHERE status = 'live' AND end_time <= NOW()
liveToClosed == auction.status = "live" /\ auction.end_time <= now

\* UPDATE ... SET status = 'closed' WHERE status = 'live' AND end_time <= NOW()
StatusUpdaterToClosed ==
    /\ statusUpdater.pc = "toClosed"
    /\ IF liveToClosed
       THEN /\ auction' = [auction EXCEPT !.status = "closed"]
            /\ statusUpdater' = [statusUpdater EXCEPT !.pc = "end_winner"]
       ELSE /\ UNCHANGED auction
            /\ statusUpdater' = IdleTask
    /\ UNCHANGED <<now, bidQueue, notices, connections, otherVars, new_bid, bid_error, bids, proxy_bids, lastBidders, handlers, proxyProcessor, started>>

\* the clean-up at the end of handleAuctionEnd
CleanUp ==
    /\ lastBidders' = None
    /\ bidQueue' = removeBidsForAuction(bidQueue, AuctionId)

\* handleAuctionEnd: the winner query; with no winner auction_ended is
\* emitted with winner null and the clean-up follows
AuctionEndWinner ==
    /\ statusUpdater.pc = "end_winner"
    /\ IF WinnerQuery # None
       THEN /\ statusUpdater' = [pc |-> "end_update", winner |-> WinnerQuery]
            /\ UNCHANGED <<lastBidders, bidQueue, auction_ended>>
       ELSE /\ statusUpdater' = IdleTask
            /\ auction_ended' = Append(auction_ended, None)
            /\ CleanUp
    /\ UNCHANGED <<now, rejected, auction_won, connections, otherVars, new_bid, bid_error,
                   auction, bids, proxy_bids, handlers, proxyProcessor, started>>

\* the sockets handleAuctionEnd sends auction_won to: the entry of the winner
\* in connectedUsers, if any
WinnerSockets(winner) ==
    IF connectedUsers[winner] # None THEN {connectedUsers[winner]} ELSE {}

\* handleAuctionEnd: UPDATE auctions SET winner_id, auction_ended to the
\* room, auction_won to the winner's connection, then the clean-up
AuctionEndUpdate ==
    /\ statusUpdater.pc = "end_update"
    /\ auction' = [auction EXCEPT !.winner_id = statusUpdater.winner]
    /\ auction_ended' = Append(auction_ended, statusUpdater.winner)
    /\ auction_won' = auction_won \cup WinnerSockets(statusUpdater.winner)
    /\ CleanUp
    /\ statusUpdater' = IdleTask
    /\ UNCHANGED <<now, rejected, connections, otherVars, new_bid, bid_error,
                   bids, proxy_bids, handlers, proxyProcessor, started>>

\* a statement of updateAuctionStatuses or handleAuctionEnd is rejected by
\* the database: the catch of handleAuctionEnd or of the timer callback logs
\* the error and the run ends
StatusUpdaterFails ==
    /\ statusUpdater.pc # "idle"
    /\ started < MaxStarted
    /\ started' = started + 1
    /\ statusUpdater' = IdleTask
    /\ UNCHANGED <<now, bidQueue, notices, connections, otherVars, new_bid, bid_error,
                   auction, bids, proxy_bids, lastBidders, handlers, proxyProcessor>>

\* ------------------------------------------------- processExpiredAuctions
\* the 60 s timer fires: SELECT id ... WHERE status = 'live' AND end_time <= NOW()
ProcessExpiredAuctions ==
    /\ proxyProcessor.pc = "idle"
    /\ AtMostOneOther
    /\ started < MaxStarted
    /\ started' = started + 1
    /\ auction.status = "live" /\ auction.end_time <= now
    /\ proxyProcessor' = [proxyProcessor EXCEPT !.pc = "deactivate"]
    /\ UNCHANGED <<now, bidQueue, notices, connections, otherVars, new_bid, bid_error, auction, bids, proxy_bids, lastBidders, handlers,
                   statusUpdater>>

\* finalizeAuctionProxyBids: UPDATE proxy_bids SET is_active = false
FinalizeDeactivate ==
    /\ proxyProcessor.pc = "deactivate"
    /\ proxy_bids' = [i \in 1..Len(proxy_bids) |->
                         [proxy_bids[i] EXCEPT !.is_active = FALSE]]
    /\ proxyProcessor' = [proxyProcessor EXCEPT !.pc = "close"]
    /\ UNCHANGED <<now, bidQueue, notices, connections, otherVars, new_bid, bid_error, auction, bids, lastBidders, handlers, statusUpdater, started>>

\* finalizeAuctionProxyBids: UPDATE auctions SET status = 'closed'
FinalizeClose ==
    /\ proxyProcessor.pc = "close"
    /\ auction' = [auction EXCEPT !.status = "closed"]
    /\ proxyProcessor' = [proxyProcessor EXCEPT !.pc = "winner"]
    /\ UNCHANGED <<now, bidQueue, notices, connections, otherVars, new_bid, bid_error, bids, proxy_bids, lastBidders, handlers, statusUpdater, started>>

\* finalizeAuctionProxyBids: the winner query
FinalizeWinner ==
    /\ proxyProcessor.pc = "winner"
    /\ proxyProcessor' = IF WinnerQuery # None
                         THEN [pc |-> "update", winner |-> WinnerQuery]
                         ELSE IdleTask
    /\ UNCHANGED <<now, bidQueue, notices, connections, otherVars, new_bid, bid_error, auction, bids, proxy_bids, lastBidders, handlers,
                   statusUpdater, started>>

\* finalizeAuctionProxyBids: UPDATE auctions SET winner_id
FinalizeUpdate ==
    /\ proxyProcessor.pc = "update"
    /\ auction' = [auction EXCEPT !.winner_id = proxyProcessor.winner]
    /\ proxyProcessor' = IdleTask
    /\ UNCHANGED <<now, bidQueue, notices, connections, otherVars, new_bid, bid_error, bids, proxy_bids, lastBidders, handlers, statusUpdater, started>>

\* a statement of finalizeAuctionProxyBids is rejected by the database: the
\* error is rethrown, caught and logged by processExpiredAuctions
ProxyProcessorFails ==
    /\ proxyProcessor.pc # "idle"
    /\ started < MaxStarted
    /\ started' = started + 1
    /\ proxyProcessor' = IdleTask
    /\ UNCHANGED <<now, bidQueue, notices, connections, otherVars, new_bid, bid_error,
                   auction, bids, proxy_bids, lastBidders, handlers, statusUpdater>>

\* ------------------------------------------------------------- the clock
Advance(limit) ==
    /\ now < limit
    /\ now' = now + 1
    /\ UNCHANGED <<bidQueue, notices, connections, otherVars,
                   auction, bids, proxy_bids, lastBidders, handlers, new_bid, bid_error,
                   statusUpdater, proxyProcessor, started>>

Tick == Advance(MaxTime)

\* ------------------------------------------------------------------ Next
Next ==
    \/ \E s \in Slots, a \in BidAmounts : handlePlaceBid(s, a)
    \/ \E s \in Slots : PlaceBidData(s)
    \/ \E s \in Slots : PlaceBidInsert(s)
    \/ \E s \in Slots : PlaceBidUpdate(s)
    \/ \E s \in Slots : PlaceBidUnset(s)
    \/ \E s \in Slots : PlaceBidSet(s)
    \/ \E s \in Slots : AutoBidSelect(s)
    \/ \E s \in Slots : AutoBidData(s)
    \/ \E s \in Slots : AutomaticBidInsert(s)
    \/ \E s \in Slots : AutomaticBidUpdate(s)
    \/ \E s \in Slots : AutomaticBidUnset(s)
    \/ \E s \in Slots : AutomaticBidSet(s)
    \/ \E s \in Slots : UpdateProxyBidCurrentAmount(s)
    \/ \E s \in Slots : QueryFails(s)
    \/ \E s \in Slots, m \in MaxAmounts : handleSetProxyBid(s, m)
    \/ \E s \in Slots, m \in MaxAmounts : postProxy(s, m)
    \/ \E s \in Slots : deleteProxy(s)
    \/ \E s \in Slots : CreateProxySelect(s)
    \/ \E s \in Slots : CreateProxyUpdate(s)
    \/ \E s \in Slots : CreateProxyPrice(s)
    \/ \E s \in Slots : CreateProxyInsert(s)
    \/ \E s \in Slots : GreedySelect(s)
    \/ \E s \in Slots : GreedyData(s)
    \/ StatusUpdaterToLive
    \/ StatusUpdaterToClosed
    \/ AuctionEndWinner
    \/ AuctionEndUpdate
    \/ ProcessExpiredAuctions
    \/ FinalizeDeactivate
    \/ FinalizeClose
    \/ FinalizeWinner
    \/ FinalizeUpdate
    \/ StatusUpdaterFails
    \/ ProxyProcessorFails
    \/ Tick

Spec == Init /\ [][Next]_vars

TypeOK ==
    /\ now \in 0..MaxTime
    /\ auction.status \in {"upcoming", "live", "closed", "cancelled"}
    /\ lastBidders \in Users \cup {None}
    /\ \A s \in AllSlots : handlers[s].op \in {None, "place", "setproxy", "rest", "put", "delete"}


\* ---------------------------------------------------------- telemetry
\* GET /api/auctions/:id: the auctionData built with the camelCase fields,
\* from which next_bid_increment is shown to the bidders
Telemetry ==
    [startingPrice |-> DecimalText(auction.starting_price),
     currentPrice |-> DecimalText(auction.current_price),
     timeRemaining |-> TimeRemainingMinutes,
     bidHistory |-> IF Len(BidHistoryQuery) <= 20 THEN BidHistoryQuery
                    ELSE SubSeq(BidHistoryQuery, 1, 20)]

\* ------------------------------------------------------ claim vocabulary
Quiescent ==
    /\ InFlight = {}
    /\ statusUpdater.pc = "idle"
    /\ proxyProcessor.pc = "idle"

BidCommitted == Len(bids') = Len(bids) + 1
NewBid == bids'[Len(bids')]

ActiveIntents == {i \in 1..Len(proxy_bids) : proxy_bids[i].is_active}
TopIntent == RowAt(ActiveIntents, 1)

\* C1: the stored current_price of a live auction never decreases from one
\* write to the next, under any interleaving of the handlers.
C1_MonotonicPrice ==
    [][auction.status = "live" => auction'.current_price >= auction.current_price]_vars

\* C2: once the auction's status is closed, no bid row of any kind is
\* inserted for it.
C2_ClosureFinality ==
    [][auction.status = "closed" => ~BidCommitted]_vars

\* C3: at every instant an auction without bids has no bid flagged is_winning
\* and an auction with bids has exactly one.
C3_SingleWinner ==
    Cardinality(WinningIds) = IF Len(bids) = 0 THEN 0 ELSE 1

\* C4: no two adjacent bids of the committed bid sequence have the same bidder.
C4_NoConsecutive ==
    \A i \in 1..(Len(bids) - 1) : bids[i].bidder_id # bids[i + 1].bidder_id

\* C5: every committed bid after the first exceeds the previously committed
\* amount by at least the bid increment of the telemetry at that commit.
C5_MinimumIncrement ==
    [][(BidCommitted /\ Len(bids) >= 1) =>
          NewBid.amount - bids[Len(bids)].amount
              >= calculateBidIncrement(Telemetry, now) * 100]_vars

\* C6: a proxy or automatic bid is committed with an amount no greater than
\* the max_amount its intent holds at that moment.
C6_ProxyBound ==
    [][\A s \in Slots :
          (handlers[s].pc = "ab_ins" /\ handlers'[s].pc = "ab_upd") =>
              handlers[s].abAmount <= proxy_bids[handlers[s].top].max_amount]_vars

\* C7: when an auction with several active intents closes, no request being
\* in flight and no manual bid being above the highest max_amount, the
\* winning bidder is the owner of the intent with the highest max_amount
\* (the earliest created on a tie).
C7_ProxyFairness ==
    [][(/\ auction.status = "live"
        /\ auction'.status = "closed"
        /\ InFlight = {}
        /\ Cardinality(ActiveIntents) >= 2
        /\ \A i \in 1..Len(bids) :
              bids[i].bid_type = "manual" =>
                  bids[i].amount <= proxy_bids[TopIntent].max_amount)
       => WinnerQuery = proxy_bids[TopIntent].bidder_id]_vars

\* C8: when a place_bid handler that committed its bid finishes, no other
\* request being in flight, no active intent of a bidder other than the
\* highest bidder has a max_amount of at least current_price + proxyIncrement.
C8_ChainExhausted ==
    [][\A s \in Slots :
          (/\ handlers[s].op = "place"
           /\ InFlight = {s}
           /\ handlers[s].pc = "ab_cur"
           /\ handlers'[s].pc = "idle")
          => (\A i \in ActiveIntents :
                 \/ proxy_bids[i].bidder_id = bids[Len(bids)].bidder_id
                 \/ proxy_bids[i].max_amount
                      < auction.current_price
                          + calculateProxyIncrement(getAuctionData, now) * 100)']_vars

\* C9: no bid of the auction, of any kind, has the auction's seller as bidder.
C9_NoSellerBid ==
    \A i \in 1..Len(bids) : bids[i].bidder_id # auction.seller_id

\* bids of the three kinds are committed: a manual bid, the proxy bid that
\* countered it and the automatic bid of a set_proxy_bid
C9_Witness ==
    \A t \in {"manual", "proxy", "automatic"} :
        \E i \in 1..Len(bids) : bids[i].bid_type = t

\* C10: with no request in flight, the bid flagged is_winning has the maximum
\* amount of the auction's bids (the latest created among equal amounts) and
\* its amount is the auction's current_price.
C10_WinningIsHighest ==
    Quiescent =>
        \A i \in WinningIds :
            /\ bids[i].amount = auction.current_price
            /\ \A j \in 1..Len(bids) :
                  \/ bids[j].amount < bids[i].amount
                  \/ bids[j].amount = bids[i].amount /\ j <= i

\* the statements of a bid commit that follow its INSERT
CommitPcs == {"pb_upd", "pb_unset", "pb_set", "ab_upd", "ab_unset", "ab_set"}
CommitInProgress == {s \in Slots : handlers[s].pc \in CommitPcs}

\* a statement of the commit of handler s is rejected in this step
FailedCommit(s) == handlers[s].pc \in CommitPcs /\ handlers'[s].pc = "idle"

\* C11: once the close of an auction has been processed, whichever periodic
\* task wrote it, and nothing is in flight, the auction has no active intent.
C11_IntentsDeactivated ==
    (auction.status = "closed" /\ Quiescent) => ActiveIntents = {}

\* C12: once the close has been processed and nothing is in flight, no
\* statement having failed, winner_id is set if and only if the auction has a
\* bid row.
C12_WinnerIffBids ==
    (auction.status = "closed" /\ Quiescent /\ bid_error = {}) =>
        (auction.winner_id # None <=> Len(bids) > 0)

\* C13: whenever a bid row is inserted, start_time <= now < end_time.
C13_CommitInWindow ==
    [][BidCommitted =>
          (auction.start_time <= now /\ now < auction.end_time)]_vars

\* C14: whenever no bid commit is in progress, total_bids is the number of
\* bid rows, also after a commit one of whose statements failed.
C14_TotalBids ==
    CommitInProgress = {} => auction.total_bids = Len(bids)

\* C15: when a statement of a bid commit fails, the bid row of that commit
\* does not persist.
C15_AtomicCommit ==
    [][\A s \in Slots :
          FailedCommit(s) => \A i \in 1..Len(bids') : i # handlers[s].bidId]_vars

\* C16: when a handler returns after the commit of its bids has completed,
\* each bid it committed has been emitted as a new_bid event and its
\* originator has not been sent an error.
C16_CommittedIsBroadcast ==
    [][\A s \in Slots :
          (handlers[s].pc # "idle" /\ handlers'[s].pc = "idle" /\ ~FailedCommit(s))
              => \A i \in Inserted(handlers[s]) :
                    /\ \E k \in 1..Len(new_bid') : new_bid'[k] = i
                    /\ i \notin bid_error']_vars

\* C17: the new_bid events are emitted in the order in which their bids were
\* committed.
C17_BroadcastOrder ==
    \A i, j \in 1..Len(new_bid) : i < j => new_bid[i] < new_bid[j]

\* C18: when the counter-bid triggered by a manual bid is inserted, no manual
\* bid has been inserted after the manual bid that triggered it.
C18_CounterBidFirst ==
    [][\A s \in Slots :
          (/\ handlers[s].op = "place"
           /\ handlers[s].pc = "ab_ins"
           /\ handlers'[s].pc = "ab_upd")
          => \A i \in (handlers[s].bid + 1)..Len(bids) :
                 bids[i].bid_type # "manual"]_vars

\* C19: a bidder has at most one active intent on the auction.
C19_OneActiveIntent ==
    \A u \in Users : Cardinality(ActiveIntentsOf(u)) <= 1

\* C20: an intent is created or updated only with a max_amount above the
\* auction's current_price at that moment.
C20_IntentAbovePrice ==
    [][\A s \in Slots :
          (/\ handlers[s].pc \in {"cp_update", "cp_insert"}
           /\ proxy_bids' # proxy_bids)
          => handlers[s].amount > auction.current_price]_vars

\* the bidder who holds the winning bid, None when no bid is flagged
WinningBidder == WinnerQuery

\* the step of processGreedyAutoBidding that inserts the automatic bid of a
\* set_proxy_bid
GreedyBidCommitted(s) ==
    /\ handlers[s].op = "setproxy"
    /\ handlers[s].pc = "ab_ins"
    /\ handlers'[s].pc = "ab_upd"

\* C21: with a single active intent and no other request in flight, the
\* automatic bid a set_proxy_bid commits has amount current_price +
\* proxyIncrement and is not placed for the bidder who already holds the
\* winning bid.
C21_SingleStepUp ==
    [][\A s \in Slots :
          (GreedyBidCommitted(s) /\ InFlight = {s} /\ Cardinality(ActiveIntents) = 1)
              => /\ NewBid.amount = auction.current_price
                        + 100 * calculateProxyIncrement(getAuctionData, now)
                 /\ NewBid.bidder_id # WinningBidder]_vars

\* ------------------------------------------- three bidders, two intents
\* The requests of Next without failures, timers and the clock, and with the
\* REST client of Third: the runs in which two intents of other bidders
\* face a manual bid.
NextThree ==
    \/ \E s \in Slots, a \in BidAmounts : handlePlaceBid(s, a)
    \/ \E s \in Slots : PlaceBidData(s)
    \/ \E s \in Slots : PlaceBidInsert(s)
    \/ \E s \in Slots : PlaceBidUpdate(s)
    \/ \E s \in Slots : PlaceBidUnset(s)
    \/ \E s \in Slots : PlaceBidSet(s)
    \/ \E s \in Slots : AutoBidSelect(s)
    \/ \E s \in Slots : AutoBidData(s)
    \/ \E s \in Slots : AutomaticBidInsert(s)
    \/ \E s \in Slots : AutomaticBidUpdate(s)
    \/ \E s \in Slots : AutomaticBidUnset(s)
    \/ \E s \in Slots : AutomaticBidSet(s)
    \/ \E s \in Slots : UpdateProxyBidCurrentAmount(s)
    \/ \E s \in AllSlots, m \in MaxAmounts : postProxy(s, m)
    \/ \E s \in AllSlots : CreateProxySelect(s)
    \/ \E s \in AllSlots : CreateProxyUpdate(s)
    \/ \E s \in AllSlots : CreateProxyPrice(s)
    \/ \E s \in AllSlots : CreateProxyInsert(s)

SpecThree == Init /\ [][NextThree]_vars

\* the step of processAutomaticBidding that decides on the counter-bid of a
\* manual bid, from the rows its query returned
CounterBidDecided(s) ==
    /\ handlers[s].op = "place"
    /\ handlers[s].pc = "pab_data"
    /\ handlers'[s].pc # "pab_data"

\* C22: when the query of processAutomaticBidding returned two or more
\* intents, the counter-bid is min(second.max + increment, top.max) raised to
\* at least newPrice + increment, and it is placed only if it is at most
\* top.max.
C22_SecondPriceCounter ==
    [][\A s \in Slots :
          LET h == handlers[s]
              increment == 100 * calculateProxyIncrement(getAuctionData, now)
              counter == Max2(Min2(h.secondMax + increment, h.topMax),
                              h.amount + increment)
          IN (CounterBidDecided(s) /\ h.nrows >= 2)
                => IF counter <= h.topMax
                   THEN /\ handlers'[s].pc = "ab_ins"
                        /\ handlers'[s].abAmount = counter
                   ELSE handlers'[s].pc = "idle"]_vars

SchedStartTime == 1
SchedEndTime == 2

InitSched == InitWith(NewAuction(SchedStartTime, SchedEndTime))

SchedTick == Advance(SchedEndTime)

\* the 30 s timer fires
TimerFires ==
    /\ upcomingToLive
    /\ UNCHANGED started

NextSched ==
    \/ \E s \in Slots, a \in BidAmounts : handlePlaceBid(s, a)
    \/ \E s \in Slots : PlaceBidData(s)
    \/ \E s \in Slots : PlaceBidInsert(s)
    \/ \E s \in Slots : PlaceBidUpdate(s)
    \/ \E s \in Slots : PlaceBidUnset(s)
    \/ \E s \in Slots : PlaceBidSet(s)
    \/ \E s \in Slots : AutoBidSelect(s)
    \/ TimerFires
    \/ StatusUpdaterToClosed
    \/ AuctionEndWinner
    \/ AuctionEndUpdate
    \/ StatusUpdaterFails
    \/ ProcessExpiredAuctions
    \/ FinalizeDeactivate
    \/ FinalizeClose
    \/ FinalizeWinner
    \/ FinalizeUpdate
    \/ ProxyProcessorFails
    \/ SchedTick

\* the timer keeps firing and the statements of a run that do not fail
\* complete
SpecSched ==
    /\ InitSched
    /\ [][NextSched]_vars
    /\ WF_vars(TimerFires)
    /\ WF_vars(StatusUpdaterToClosed)

C25_FinalizedOnce ==
    (auction.status = "closed" /\ Quiescent) => Len(auction_ended) = 1

\* ------------------------------------------------- several connections
\* handleConnection: connectedUsers.set(socket.user.id, { socketId, ... })
handleConnection(k) ==
    /\ k \notin sockets
    /\ started < MaxStarted
    /\ started' = started + 1
    /\ sockets' = sockets \cup {k}
    /\ connectedUsers' = [connectedUsers EXCEPT ![k[1]] = k]
    /\ UNCHANGED <<now, bidQueue, notices, otherVars, new_bid, bid_error, auction,
                   bids, proxy_bids, lastBidders, handlers, statusUpdater,
                   proxyProcessor>>

\* handleDisconnect: connectedUsers.delete(socket.user.id) and the user id
\* taken out of the tracked room; socket.io takes the socket out of its rooms
handleDisconnect(k) ==
    /\ k \in sockets
    /\ started < MaxStarted
    /\ started' = started + 1
    /\ sockets' = sockets \ {k}
    /\ connectedUsers' = [connectedUsers EXCEPT ![k[1]] = None]
    /\ auctionRooms' = auctionRooms \ {k[1]}
    /\ rooms' = rooms \ {k}
    /\ UNCHANGED <<now, bidQueue, notices, authVars, pricingVars, subscriber, data,
                   new_bid, bid_error, auction,
                   bids, proxy_bids, lastBidders, handlers, statusUpdater,
                   proxyProcessor>>

\* bids, connects and disconnects, and the 30 s task that ends the auction
NextConn ==
    \/ \E s \in Slots, a \in BidAmounts : handlePlaceBid(s, a)
    \/ \E s \in Slots : PlaceBidData(s)
    \/ \E s \in Slots : PlaceBidInsert(s)
    \/ \E s \in Slots : PlaceBidUpdate(s)
    \/ \E s \in Slots : PlaceBidUnset(s)
    \/ \E s \in Slots : PlaceBidSet(s)
    \/ \E s \in Slots : AutoBidSelect(s)
    \/ \E k \in SocketIds : handleConnection(k)
    \/ \E k \in SocketIds : handleDisconnect(k)
    \/ TimerFires
    \/ StatusUpdaterToClosed
    \/ AuctionEndWinner
    \/ AuctionEndUpdate
    \/ Tick

SpecConn == Init /\ [][NextConn]_vars

\* C26: when handleAuctionEnd announces a winner, auction_won has been sent
\* to every socket of the winner that is connected at that time.
C26_WinnerNotified ==
    [][(Len(auction_ended') > Len(auction_ended)
            /\ auction_ended'[Len(auction_ended')] # None)
          => \A k \in sockets :
                k[1] = auction_ended'[Len(auction_ended')] => k \in auction_won']_vars

\* ------------------------------------------------------ process restart
\* The process restarts: the requests in flight and the runs of the timers
\* are gone, the constructor makes empty maps and an empty queue, the rows
\* of the database stay, and the clients connect again.
Restart ==
    /\ started < MaxStarted
    /\ started' = started + 1
    /\ handlers' = [s \in AllSlots |-> IdleHandler]
    /\ statusUpdater' = IdleTask
    /\ proxyProcessor' = IdleTask
    /\ lastBidders' = None
    /\ bidQueue' = <<>>
    /\ connectedUsers' = [u \in Users |-> <<u, 1>>]
    /\ sockets' = {<<u, 1>> : u \in Users}
    /\ auctionRooms' = {}
    /\ rooms' = {}
    /\ subscriber' = NotJoined
    /\ UNCHANGED <<now, notices, authVars, pricingVars, data, new_bid, bid_error,
                   auction, bids, proxy_bids>>

\* a place_bid that arrives while no other request is in flight
PlaceBidAlone(s, amount) ==
    /\ InFlight = {}
    /\ handlePlaceBid(s, amount)

\* the bids arrive one at a time, and the process restarts now and then
NextRestart ==
    \/ \E s \in Slots, a \in BidAmounts : PlaceBidAlone(s, a)
    \/ \E s \in Slots : PlaceBidData(s)
    \/ \E s \in Slots : PlaceBidInsert(s)
    \/ \E s \in Slots : PlaceBidUpdate(s)
    \/ \E s \in Slots : PlaceBidUnset(s)
    \/ \E s \in Slots : PlaceBidSet(s)
    \/ \E s \in Slots : AutoBidSelect(s)
    \/ Restart

SpecRestart == Init /\ [][NextRestart]_vars

\* C27: with bids arriving one at a time and restarts of the process between
\* them, a manual bid is not committed by the bidder of the last bid whose
\* commit was completed before it.
C27_NoConsecutiveAcrossRestart ==
    [][\A s \in Slots :
          (/\ handlers[s].pc = "pb_ins"
           /\ handlers'[s].pc = "pb_upd"
           /\ Len(bids) > 0
           /\ bids[Len(bids)].is_winning)
              => NewBid.bidder_id # bids[Len(bids)].bidder_id]_vars

--------------------------------------------------------------------------
\* The authentication rate limit (middleware/auth.js, createAuthRateLimit;
\* routes/authRoutes.js mounts it before every auth route).  One source
\* address; times are in minutes.

AuthTick == 10       \* the auth clock advances in steps of AuthTick minutes
MaxDate == 20        \* the auth clock stops here
MaxRequests == 6     \* requests of the address, in all

maxAttempts == 5
lockoutTime == 15     \* 15 * 60 * 1000 ms, in minutes

\* everything the auth middleware does not touch
auctionVars == <<now, auction, bids, proxy_bids, lastBidders, handlers,
                 statusUpdater, proxyProcessor, started, new_bid, bid_error,
                 bidQueue, notices, connections>>

\* res.statusCode of an authentication that failed
AuthFailed(status) == status \in {401, 403}

\* what the auth routes answer in the model
AuthStatuses == {200, 401}

\* lines 146-156: the entry of the address as a request arriving at t finds
\* it, created when absent and reset when the lockout time has passed
userAttemptsAt(t) ==
    LET entry == IF attempts = <<>>
                 THEN [count |-> 0, lastAttempt |-> t]
                 ELSE attempts[1]
    IN IF t - entry.lastAttempt > lockoutTime
       THEN [count |-> 0, lastAttempt |-> t]
       ELSE entry

\* lines 142-183: a request arrives; it is answered 429 when the address is
\* locked out, and reaches the route handler (next()) otherwise
createAuthRateLimit ==
    /\ Len(requests) + Len(responses) < MaxRequests
    /\ LET userAttempts == userAttemptsAt(dateNow) IN
         /\ attempts' = <<userAttempts>>
         /\ IF userAttempts.count >= maxAttempts
            THEN /\ responses' = Append(responses,
                        [status |-> 429, now |-> dateNow])
                 /\ UNCHANGED requests
            ELSE /\ requests' = Append(requests, dateNow)
                 /\ UNCHANGED responses
    /\ UNCHANGED <<dateNow, auctionVars, pricingVars, roomVars, data>>

\* lines 169-180: the route handler of request i answers; the wrapper of
\* res.end counts a failure, with the arrival time of the request as
\* lastAttempt, and resets the count on a 200
res_end(i, status) ==
    /\ i \in 1..Len(requests)
    /\ attempts' =
         IF AuthFailed(status)
         THEN <<[count |-> attempts[1].count + 1, lastAttempt |-> requests[i]]>>
         ELSE IF status = 200 THEN <<[attempts[1] EXCEPT !.count = 0]>>
         ELSE attempts
    /\ requests' = [k \in 1..(Len(requests) - 1) |->
                       IF k < i THEN requests[k] ELSE requests[k + 1]]
    /\ responses' = Append(responses,
           [status |-> status, now |-> requests[i]])
    /\ UNCHANGED <<dateNow, auctionVars, pricingVars, roomVars, data>>

\* Date.now() moves on
AuthClock ==
    /\ dateNow + AuthTick <= MaxDate
    /\ dateNow' = dateNow + AuthTick
    /\ UNCHANGED <<attempts, requests, responses, auctionVars, pricingVars, roomVars, data>>

NextAuth ==
    \/ createAuthRateLimit
    \/ \E i \in 1..MaxRequests, status \in AuthStatuses : res_end(i, status)
    \/ AuthClock

SpecAuth == Init /\ [][NextAuth]_vars

\* the answers of the route handlers, in order
Answered == SelectSeq(responses, LAMBDA r : r.status # 429)

\* C28: overlapping requests of one address do not let more than 5 failures
\* through: the route handlers never answer more than maxAttempts failed
\* authentications in a row (no 200 between them) to requests that arrived
\* within the lockout time of each other.
C28_AtMostFiveFailures ==
    \A i, j \in 1..Len(Answered) :
        (/\ i <= j
         /\ \A k \in i..j : AuthFailed(Answered[k].status)
         /\ Answered[j].now - Answered[i].now <= lockoutTime)
            => j - i + 1 <= maxAttempts

--------------------------------------------------------------------------
\* calculateBidIncrement over the telemetry inputs: every price band and
\* every value of the four factors.

\* prices in cents: below 100, 100-500, 500-1000, 1000-5000, 5000 and above
TelemetryStartingPrices == {5000, 100000}
TelemetryCurrentPrices == {5000, 9999, 10000, 49999, 50000, 99999, 100000, 499999, 500000}
\* minutes on either side of each threshold of calculateTimePressureFactor
TelemetryTimes == {1, 5, 15, 30, 60, 61}
\* bidHistory.length, and recentBids.length of calculateVelocityFactor
TelemetryBids == {0, 1, 5, 10, 20, 50}
\* the bidders who take turns in the history
TelemetryBidders == {1, 3, 5, 7, 11}

\* n bids of k bidders in turn, made within the last ten minutes when recent
BidHistoryOf(n, k, recent) ==
    [i \in 1..n |-> [bidder_id |-> ((i - 1) % k) + 1,
                     created_at |-> IF recent THEN 0 ELSE -1]]

TelemetryInputs ==
    {[startingPrice |-> DecimalText(sp), currentPrice |-> DecimalText(cp),
      timeRemaining |-> t, bidHistory |-> BidHistoryOf(n, k, recent)] :
        sp \in TelemetryStartingPrices, cp \in TelemetryCurrentPrices,
        t \in TelemetryTimes,
        <<n, k, recent>> \in
            {x \in TelemetryBids \X TelemetryBidders \X BOOLEAN : x[2] <= Max2(x[1], 1)}}

InitTelemetry ==
    /\ InitServer(NewAuction(StartTime, EndTime))
    /\ auctionData \in TelemetryInputs
    /\ bidIncrement = <<>>

\* the caller asks for the increment of the telemetry it has
nextBidIncrement ==
    /\ bidIncrement = <<>>
    /\ bidIncrement' = <<calculateBidIncrement(auctionData, now)>>
    /\ UNCHANGED <<auctionData, auctionVars, authVars, roomVars, data>>

NextPricing == nextBidIncrement

SpecPricing == InitTelemetry /\ [][NextPricing]_vars

\* C29: for every telemetry input, bidIncrement returns a value between
\* minIncrement (1.00) and maxIncrement (500.00); it is never 0.
C29_IncrementInRange ==
    bidIncrement # <<>> =>
        /\ bidIncrement[1] >= minIncrement
        /\ bidIncrement[1] <= maxIncrement

--------------------------------------------------------------------------
\* PUT /api/auctions/:id (routes/auctionRoutes.js): the seller edits an
\* auction that has not started.  Of the fields of the body the model keeps
\* starting_price.

PutPrices == {5000, 20000}

\* lines 398-416: the SELECT of the seller's auction and the status check;
\* 400 when the auction has started
PutSelect(s, starting_price) ==
    /\ User(s) = Seller
    /\ Chan(s) = "http"
    /\ CanStart(s)
    /\ started' = started + 1
    /\ handlers' = IF auction.status # "upcoming" THEN handlers
                   ELSE [handlers EXCEPT ![s] =
                            [IdleHandler EXCEPT !.pc = "put_upd", !.op = "put",
                                                !.amount = starting_price]]
    /\ UNCHANGED <<now, auction, bids, proxy_bids, lastBidders, statusUpdater,
                   proxyProcessor, new_bid, bid_error, bidQueue, notices,
                   connections, otherVars>>

\* lines 438-473: UPDATE auctions SET starting_price = $1, updated_at = ...
PutUpdate(s) ==
    /\ handlers[s].pc = "put_upd"
    /\ auction' = [auction EXCEPT !.starting_price = handlers[s].amount]
    /\ Finish(s)
    /\ UNCHANGED <<now, bids, proxy_bids, lastBidders, statusUpdater,
                   proxyProcessor, started, new_bid, bid_error, bidQueue,
                   notices, connections, otherVars>>

\* an auction created upcoming, the seller's edits, the timers and the bids
NextUpdate ==
    \/ \E s \in Slots, p \in PutPrices : PutSelect(s, p)
    \/ \E s \in Slots : PutUpdate(s)
    \/ NextSched

SpecUpdate == InitSched /\ [][NextUpdate]_vars

\* C30: current_price >= starting_price at all times after creation, and
\* current_price = starting_price as long as the auction has no bids.
C30_PriceAtLeastStart ==
    /\ auction.current_price >= auction.starting_price
    /\ bids = <<>> => auction.current_price = auction.starting_price

--------------------------------------------------------------------------
\* DELETE /api/auctions/:id (routes/auctionRoutes.js): the seller cancels
\* the auction.

\* lines 506-532: the SELECT of the seller's auction and the checks on the
\* row: 400 for a closed auction and for a live auction with total_bids > 0
DeleteSelect(s) ==
    /\ User(s) = Seller
    /\ Chan(s) = "http"
    /\ CanStart(s)
    /\ started' = started + 1
    /\ handlers' =
         IF \/ auction.status = "closed"
            \/ auction.status = "live" /\ auction.total_bids > 0
         THEN handlers
         ELSE [handlers EXCEPT ![s] =
                  [IdleHandler EXCEPT !.pc = "del_upd", !.op = "delete"]]
    /\ UNCHANGED <<now, auction, bids, proxy_bids, lastBidders, statusUpdater,
                   proxyProcessor, new_bid, bid_error, bidQueue, notices,
                   connections, otherVars>>

\* lines 534-542: UPDATE auctions SET status = 'cancelled' WHERE id = $1
DeleteUpdate(s) ==
    /\ handlers[s].pc = "del_upd"
    /\ auction' = [auction EXCEPT !.status = "cancelled"]
    /\ Finish(s)
    /\ UNCHANGED <<now, bids, proxy_bids, lastBidders, statusUpdater,
                   proxyProcessor, started, new_bid, bid_error, bidQueue,
                   notices, connections, otherVars>>

\* an auction created upcoming, the timers, the bids and the seller's cancel
NextCancel ==
    \/ \E s \in Slots : DeleteSelect(s)
    \/ \E s \in Slots : DeleteUpdate(s)
    \/ NextSched

SpecCancel == InitSched /\ [][NextCancel]_vars

\* C31: no auction with status cancelled has any bid rows, also when the
\* owner's cancel request and a bid overlap.
C31_CancelledHasNoBids ==
    auction.status = "cancelled" => bids = <<>>

\* the moves of auctions.status that the lifecycle allows
StatusMoves ==
    {<<"upcoming", "live">>, <<"live", "closed">>,
     <<"upcoming", "cancelled">>, <<"live", "cancelled">>}

\* C37: the status only moves upcoming to live, live to closed, upcoming to
\* cancelled or live to cancelled; closed and cancelled are never left,
\* under any interleaving of the timers and the owner's cancel request.
C37_StatusMoves ==
    [][auction'.status # auction.status
          => <<auction.status, auction'.status>> \in StatusMoves]_vars

--------------------------------------------------------------------------
\* join_auction and leave_auction (auctionSocketHandler.js, handleJoinAuction
\* and handleLeaveAuction).  The joins of one socket, the watcher, are
\* followed through their awaits.

Watcher == <<Third, 1>>

\* lines 80-92: socket.join(roomName) and auctionRooms.get(auctionId).add(
\* socket.user.id), before the first await
handleJoinAuction(k) ==
    /\ k \in sockets
    /\ k = Watcher => subscriber.pc \in {"out", "in"}
    /\ started < MaxStarted
    /\ started' = started + 1
    /\ rooms' = rooms \cup {k}
    /\ auctionRooms' = auctionRooms \cup {k[1]}
    /\ subscriber' = IF k = Watcher
                     THEN [NotJoined EXCEPT !.pc = "status",
                                            !.joinedAt = Len(new_bid)]
                     ELSE subscriber
    /\ UNCHANGED <<now, auction, bids, proxy_bids, lastBidders, handlers,
                   statusUpdater, proxyProcessor, new_bid, bid_error, bidQueue,
                   notices, connections, authVars, pricingVars, data>>

\* lines 94-96: await getAuctionStatus, socket.emit('auction_status')
JoinStatus ==
    /\ subscriber.pc = "status"
    /\ subscriber' = [subscriber EXCEPT !.pc = "history"]
    /\ UNCHANGED <<auctionVars, authVars, pricingVars, auctionRooms, rooms, data>>

\* lines 98-100: await getRecentBidHistory (the 20 latest rows of bids),
\* socket.emit('bid_history')
JoinHistory ==
    /\ subscriber.pc = "history"
    /\ subscriber' = [subscriber EXCEPT !.pc = "in",
                                        !.snapshot = 1..Min2(Len(bids), 20),
                                        !.snapAt = Len(new_bid)]
    /\ UNCHANGED <<auctionVars, authVars, pricingVars, auctionRooms, rooms, data>>

\* lines 117-139: socket.leave(roomName) and auctionRooms.get(auctionId)
\* .delete(socket.user.id)
handleLeaveAuction(k) ==
    /\ k \in rooms
    /\ k = Watcher => subscriber.pc = "in"
    /\ started < MaxStarted
    /\ started' = started + 1
    /\ rooms' = rooms \ {k}
    /\ auctionRooms' = auctionRooms \ {k[1]}
    /\ subscriber' = IF k = Watcher THEN NotJoined ELSE subscriber
    /\ UNCHANGED <<now, auction, bids, proxy_bids, lastBidders, handlers,
                   statusUpdater, proxyProcessor, new_bid, bid_error, bidQueue,
                   notices, connections, authVars, pricingVars, data>>

\* the bids of the bidders while the watcher joins
NextJoin ==
    \/ \E s \in Slots, a \in BidAmounts : handlePlaceBid(s, a)
    \/ \E s \in Slots : PlaceBidData(s)
    \/ \E s \in Slots : PlaceBidInsert(s)
    \/ \E s \in Slots : PlaceBidUpdate(s)
    \/ \E s \in Slots : PlaceBidUnset(s)
    \/ \E s \in Slots : PlaceBidSet(s)
    \/ \E s \in Slots : AutoBidSelect(s)
    \/ handleJoinAuction(Watcher)
    \/ JoinStatus
    \/ JoinHistory
    \/ handleLeaveAuction(Watcher)

SpecJoin == Init /\ [][NextJoin]_vars

\* the bid ids of the new_bid events the watcher's socket was sent
Delivered ==
    {new_bid[i] : i \in (subscriber.joinedAt + 1)..Len(new_bid)}

\* those it was sent before bid_history
DeliveredEarly ==
    {new_bid[i] : i \in (subscriber.joinedAt + 1)..subscriber.snapAt}

\* C32: a subscriber who joins while bids are being committed sees every
\* committed bid exactly once across the bid_history snapshot and the
\* new_bid events: none is missing once the handlers have returned, none is
\* delivered both ways, and no new_bid is delivered before the snapshot.
C32_EachBidOnce ==
    subscriber.pc = "in" =>
        /\ InFlight = {} => \A i \in 1..Len(bids) :
                                i \in subscriber.snapshot \cup Delivered
        /\ subscriber.snapshot \cap Delivered = {}
        /\ DeliveredEarly = {}

--------------------------------------------------------------------------
\* Connections and room membership: connect, join_auction, leave_auction
\* and disconnect of the two sockets of a user.

RoomSockets == (Users \ {Third}) \X {1, 2}

NextRooms ==
    \/ \E k \in RoomSockets : handleConnection(k)
    \/ \E k \in RoomSockets : handleJoinAuction(k)
    \/ \E k \in RoomSockets : handleLeaveAuction(k)
    \/ \E k \in RoomSockets : handleDisconnect(k)

SpecRooms == Init /\ [][NextRooms]_vars

\* C38: a user is recorded as connected exactly when one of the user's
\* connections is open, and is recorded in the auction's room set exactly
\* when an open connection of the user has joined the auction and not left.
C38_RoomsMatchConnections ==
    \A u \in Users :
        /\ connectedUsers[u] # None <=> \E k \in sockets : k[1] = u
        /\ u \in auctionRooms <=> \E k \in rooms : k[1] = u

--------------------------------------------------------------------------
\* The identity behind a socket command.  authenticateSocket attaches the
\* users row of the token to the connection (socket.user); the commands
\* arrive with payloads that may carry fields the handlers do not read.

\* the bidderId field of a payload: absent, or the id of some user
PayloadBidders == {None, "B1", "B2", Seller}

\* socket.on('place_bid', (data) => this.handlePlaceBid(socket, data)), the
\* commands arriving one at a time
place_bid(s, d) ==
    /\ InFlight = {}
    /\ placeBidChecks(s, d.amount)
    /\ data' = [data EXCEPT ![s] = d.bidderId]

\* socket.on('set_proxy_bid', (data) => this.handleSetProxyBid(socket, data)),
\* the commands arriving one at a time
set_proxy_bid(s, d) ==
    /\ InFlight = {}
    /\ setProxyBidChecks(s, d.maxAmount)
    /\ data' = [data EXCEPT ![s] = d.bidderId]

NextIdentity ==
    \/ \E s \in Slots, a \in BidAmounts, b \in PayloadBidders :
          place_bid(s, [amount |-> a, bidderId |-> b])
    \/ \E s \in Slots : PlaceBidData(s)
    \/ \E s \in Slots : PlaceBidInsert(s)
    \/ \E s \in Slots : PlaceBidUpdate(s)
    \/ \E s \in Slots : PlaceBidUnset(s)
    \/ \E s \in Slots : PlaceBidSet(s)
    \/ \E s \in Slots : AutoBidSelect(s)
    \/ \E s \in Slots : AutoBidData(s)
    \/ \E s \in Slots : AutomaticBidInsert(s)
    \/ \E s \in Slots : AutomaticBidUpdate(s)
    \/ \E s \in Slots : AutomaticBidUnset(s)
    \/ \E s \in Slots : AutomaticBidSet(s)
    \/ \E s \in Slots : UpdateProxyBidCurrentAmount(s)
    \/ \E s \in Slots, m \in MaxAmounts, b \in PayloadBidders :
          set_proxy_bid(s, [maxAmount |-> m, bidderId |-> b])
    \/ \E s \in Slots : CreateProxySelect(s)
    \/ \E s \in Slots : CreateProxyUpdate(s)
    \/ \E s \in Slots : CreateProxyPrice(s)
    \/ \E s \in Slots : CreateProxyInsert(s)
    \/ \E s \in Slots : GreedySelect(s)
    \/ \E s \in Slots : GreedyData(s)

SpecIdentity == Init /\ [][NextIdentity]_vars

\* C33: the bidder of every manual bid and the owner of every intent created
\* over the socket is the authenticated user of the connection that sent the
\* command, whatever other fields the payload carries.
C33_BidderIsSocketUser ==
    [][\A s \in Slots :
          /\ (handlers[s].pc = "pb_ins" /\ handlers'[s].pc = "pb_upd")
                => NewBid.bidder_id = User(s)
          /\ (/\ handlers[s].pc = "cp_insert"
              /\ handlers[s].op = "setproxy"
              /\ handlers'[s].pc # "cp_insert")
                => proxy_bids'[Len(proxy_bids')].bidder_id = User(s)]_vars

\* a command whose payload names another user has committed its bid
C33_Witness ==
    \E s \in Slots :
        /\ data[s] \notin {None, User(s)}
        /\ handlers[s].pc = "pb_upd"
        /\ bids[handlers[s].bidId].bidder_id = User(s)

--------------------------------------------------------------------------
\* Cancelling an intent (DELETE /api/bids/proxy/:auctionId) while bids and
\* automatic bidding go on.

\* the first intent of the auction, set over the socket while nothing else
\* is in flight
FirstIntent(s, maxAmount) ==
    /\ proxy_bids = <<>>
    /\ InFlight = {}
    /\ handleSetProxyBid(s, maxAmount)

\* one intent is set; then bids, the automatic bidding they start, and the
\* cancel of the intent
NextProxyCancel ==
    \/ \E s \in Slots, m \in MaxAmounts : FirstIntent(s, m)
    \/ \E s \in Slots : CreateProxySelect(s)
    \/ \E s \in Slots : CreateProxyPrice(s)
    \/ \E s \in Slots : CreateProxyInsert(s)
    \/ \E s \in Slots : GreedySelect(s)
    \/ \E s \in Slots : GreedyData(s)
    \/ \E s \in Slots, a \in BidAmounts : handlePlaceBid(s, a)
    \/ \E s \in Slots : PlaceBidData(s)
    \/ \E s \in Slots : PlaceBidInsert(s)
    \/ \E s \in Slots : PlaceBidUpdate(s)
    \/ \E s \in Slots : PlaceBidUnset(s)
    \/ \E s \in Slots : PlaceBidSet(s)
    \/ \E s \in Slots : AutoBidSelect(s)
    \/ \E s \in Slots : AutoBidData(s)
    \/ \E s \in Slots : AutomaticBidInsert(s)
    \/ \E s \in Slots : AutomaticBidUpdate(s)
    \/ \E s \in Slots : AutomaticBidUnset(s)
    \/ \E s \in Slots : AutomaticBidSet(s)
    \/ \E s \in Slots : UpdateProxyBidCurrentAmount(s)
    \/ \E s \in Slots : deleteProxy(s)

SpecProxyCancel == Init /\ [][NextProxyCancel]_vars

\* C34: after a bidder's intent is cancelled, no proxy or automatic bid is
\* committed on that bidder's behalf until the bidder sets a new intent:
\* every such bid is inserted while its bidder has an active intent.
C34_NoBidAfterCancel ==
    [][(BidCommitted /\ NewBid.bid_type # "manual")
          => ActiveIntentsOf(NewBid.bidder_id) # {}]_vars

--------------------------------------------------------------------------
\* Who a bid is attributed to: lastBidders and the bidderUsername of new_bid.

\* C35: while no handler is in flight, the lastBidders entry of a live
\* auction that has bids is the bidder of the most recently committed bid,
\* whether that bid was manual, a proxy counter-bid or the automatic bid of
\* set_proxy_bid.
C35_LastBidderIsLatest ==
    (Quiescent /\ auction.status = "live" /\ bids # <<>>)
        => lastBidders = bids[Len(bids)].bidder_id

\* the bidderUsername field of the new_bid event that the handler in slot s
\* emits for bid i: socket.user.username for the manual bid of place_bid and
\* for the automatic bid of set_proxy_bid, proxyResponse.proxyBidder.username
\* for the proxy counter-bid (usernames are unique, so a user stands for its
\* username)
bidderUsername(s, i) ==
    LET h == handlers[s] IN
    IF h.op = "place" /\ i = h.automaticBid /\ i # h.bid
    THEN proxy_bids[h.top].bidder_id
    ELSE User(s)

\* the handler in slot s emits new_bid events in this step
Emits(s) ==
    /\ handlers[s].pc # "idle"
    /\ handlers'[s].pc = "idle"
    /\ Len(new_bid') > Len(new_bid)

\* C36: the bidderUsername of every new_bid event is the username of the
\* bidder of the bid row the event announces.
C36_UsernameIsBidder ==
    [][\A s \in Slots : Emits(s) =>
          \A k \in (Len(new_bid) + 1)..Len(new_bid') :
              bidderUsername(s, new_bid'[k]) = bids[new_bid'[k]].bidder_id]_vars

--------------------------------------------------------------------------
\* The competition factor of calculateBidIncrement on the history that
\* getAuctionData loads, for auctions with up to 50 bids.

\* how many bids come in a row, and who takes turns placing them
RunLengths == {1, 5, 20}
RunBidders == {<<"B1">>, <<"B1", "B2">>, <<"B1", "B2", Third>>}

\* n bids are placed and committed one after another, each above the last,
\* by the bidders of who in turn: placeBid's INSERT and UPDATEs, n times
placeBids(n, who) ==
    LET first == Len(bids)
        last == first + n
    IN /\ bidIncrement = <<>>
       /\ started < MaxStarted
       /\ started' = started + 1
       /\ last <= 50
       /\ bids' = [i \in 1..last |->
                     IF i <= first THEN [bids[i] EXCEPT !.is_winning = FALSE]
                     ELSE [bidder_id |-> who[((i - first - 1) % Len(who)) + 1],
                           amount |-> auction.current_price + 100 * (i - first),
                           bid_type |-> "manual", created_at |-> now,
                           is_winning |-> i = last]]
       /\ auction' = [auction EXCEPT !.current_price = @ + 100 * n,
                                     !.total_bids = @ + n]
       /\ UNCHANGED <<now, proxy_bids, lastBidders, handlers, statusUpdater,
                      proxyProcessor, new_bid, bid_error, bidQueue, notices,
                      connections, otherVars>>

\* processAutomaticBidding asks for the increment: getAuctionData, then
\* calculateProxyIncrement on what it returned
proxyIncrement ==
    /\ bidIncrement = <<>>
    /\ auctionData' = getAuctionData
    /\ bidIncrement' = <<calculateProxyIncrement(getAuctionData, now)>>
    /\ UNCHANGED <<auctionVars, authVars, roomVars, data>>

NextCompetition ==
    \/ \E n \in RunLengths, who \in RunBidders : placeBids(n, who)
    \/ proxyIncrement

SpecCompetition == Init /\ [][NextCompetition]_vars

\* the 20 most recently committed bids, newest first
MostRecent20 ==
    LET r == Reverse(bids) IN IF Len(r) <= 20 THEN r ELSE SubSeq(r, 1, 20)

\* C39: the competition factor that enters the increment is the one of the
\* distinct bidders among the 20 most recent bids of the auction.
C39_FactorOfMostRecent ==
    bidIncrement # <<>> =>
        calculateCompetitionFactor(auctionData.bidHistory)
            = calculateCompetitionFactor(MostRecent20)

--------------------------------------------------------------------------
\* The bid queue under add, poll, addBidWithTimePriority and
\* removeBidsForAuction, with bids of two auctions.

MaxQueue == 4
\* amounts in cents on either side of 100.00, where the text grows a digit
QueueAmounts == {9900, 10000, 10050}
QueueAuctions == {AuctionId, 2}
QueueTimestamps == {0, 1}

\* the bids a caller can hand to the queue
QueueBids ==
    {[id |-> 0, amount |-> DecimalText(c), auctionId |-> a, timestamp |-> t] :
        c \in QueueAmounts, a \in QueueAuctions, t \in QueueTimestamps}

QueueUnchanged ==
    UNCHANGED <<now, auction, bids, proxy_bids, lastBidders, handlers,
                statusUpdater, proxyProcessor, started, new_bid, bid_error,
                notices, connections, otherVars>>

QueueAdd(bid) ==
    /\ Len(bidQueue) < MaxQueue
    /\ bidQueue' = add(bidQueue, bid)
    /\ QueueUnchanged

QueuePoll ==
    /\ bidQueue # <<>>
    /\ bidQueue' = poll(bidQueue)
    /\ QueueUnchanged

QueueAddWithTimePriority(bid) ==
    /\ Len(bidQueue) < MaxQueue
    /\ bidQueue' = addBidWithTimePriority(bidQueue, bid, now + 1)
    /\ QueueUnchanged

QueueRemove(auctionId) ==
    /\ bidQueue' = removeBidsForAuction(bidQueue, auctionId)
    /\ QueueUnchanged

NextQueue ==
    \/ \E bid \in QueueBids : QueueAdd(bid)
    \/ QueuePoll
    \/ \E bid \in QueueBids : QueueAddWithTimePriority(bid)
    \/ \E a \in QueueAuctions : QueueRemove(a)

SpecQueue == Init /\ [][NextQueue]_vars

\* C40: in the bid queue every parent's amount is >= the amounts of its
\* children, so that the bid at the root, which peek and poll return, has
\* the maximum amount of the queued bids.
C40_HeapProperty ==
    \A i \in 2..Len(bidQueue) :
        ToNumber(bidQueue[i \div 2].amount) >= ToNumber(bidQueue[i].amount)

====
